---------------------------- MODULE Spec2Model ----------------------------
(***************************************************************************)
(* OGMNeoRelationQuery (src/lib/ogmneo-relation-query.js): the fluent      *)
(* builder of relation queries, its setters and its cypher renderers.      *)
(*                                                                         *)
(* A JavaScript string is modelled as the sequence of its lexical tokens   *)
(* (the empty string '' is the empty sequence <<>>); string concatenation  *)
(* is \o, and the blanks between tokens are not kept.  A JavaScript value  *)
(* is a record tagged by its type.                                         *)
(***************************************************************************)
EXTENDS Integers, Sequences, FiniteSets, TLC

\* ------------------------------------------------------------------ bounds
MaxId == 1
MaxLimit == 1
NFilters == 2
NBuilders == 2
MaxCalls == 2
MaxRels == 2

\* ------------------------------------------------------------------ state
VARIABLES
    q,       \* q[b]: the fields of query object b
    wvar,    \* wvar[w]: the `variable` of filter object w
    hist,    \* hist[b]: the last ordering call on b and the last accepted
             \* arguments of limit and of the three projection setters
    ncalls,  \* calls made so far (bounded exploration only)
    fac,     \* the facade's latest verb call: verb, arguments, outcome
    runs,    \* how many times the driver's run was called
    inflight,\* driver runs of earlier verb calls not yet answered
    store,   \* the relations of the database, in the order of their ids
    out,     \* the latest updateMany call and the rows it resolved with
    rout     \* the latest render call on query object 1 since its last
             \* setter call, and the string it returned

vars == <<q, wvar, hist, ncalls, fac, runs, inflight, store, out, rout>>
facvars == <<fac, runs, inflight>>
qvars == <<q, wvar, hist>>
storevars == <<store, out, rout>>

\* ------------------------------------------------------- JavaScript values
Undef == [t |-> "undef"]
Null == [t |-> "null"]
Obj == [t |-> "obj"]
JInt(n) == [t |-> "int", v |-> n]
JStr(s) == [t |-> "str", v |-> s]
JArr(a) == [t |-> "arr", v |-> a]
JRef(w) == [t |-> "where", v |-> w]
JBool(v) == [t |-> "bool", v |-> v]

\* x != null  (loose inequality: neither null nor undefined)
NotNull(x) == x.t \notin {"undef", "null"}

\* the truthiness of a value, as `if (x)` and `(x) ? a : b` test it
Truthy(x) ==
    CASE x.t = "int" -> x.v # 0
      [] x.t = "str" -> x.v # <<>>
      [] x.t = "bool" -> x.v
      [] x.t \in {"undef", "null"} -> FALSE
      [] OTHER -> TRUE

\* lodash's _.isInteger, _.isString, _.isEmpty (of a string)
isInteger(x) == x.t = "int"
isString(x) == x.t = "str"
isEmpty(x) == x.v = <<>>

Builders == 1..NBuilders
Filters == 1..NFilters

\* --------------------------------------------------- OGMNeoWhere (filter)
\* The filter class is not among the sources; it is modelled from its
\* contract: a field, an operator and a value fixed at construction, and a
\* `variable` that whoever holds the object may set; `clause` renders
\* <variable>.<field> <op> <value> with the variable as it is at that moment.
WhereField(w) == "p" \o ToString(w)
WhereInitVariable == "n"
instanceofWhere(x) == x.t = "where"
WhereClause(wv, w) == <<wv[w], ".", WhereField(w), "=", "'c'">>

\* -------------------------------------------- OGMObjectParse (projection)
\* Not among the sources either; modelled from its contract: valid is a
\* non-empty string or a non-empty array of strings; parsing renders the
\* comma-joined list of <variable>.<property>, in input order.
isValidPropertiesArray(p) ==
    \/ p.t = "str" /\ p.v # <<>>
    \/ p.t = "arr" /\ p.v # <<>> /\ \A i \in 1..Len(p.v) : p.v[i].t = "str"

RECURSIVE JoinProps(_, _, _)
JoinProps(a, variable, i) ==
    IF i > Len(a) THEN <<>>
    ELSE (IF i > 1 THEN <<",">> ELSE <<>>) \o <<variable, ".">> \o a[i].v
         \o JoinProps(a, variable, i + 1)

parsePropertiesArray(p, variable) ==
    IF p.t = "arr" THEN JoinProps(p.v, variable, 1)
    ELSE <<variable, ".">> \o p.v

\* ------------------------------------------------------------ the builder
\* The fields of an OGMNeoRelationQuery; a field never assigned is undefined.
NewQuery ==
    [_type |-> Undef,
     _startNodeId |-> Undef, _startNodeLabel |-> Undef,
     _endNodeId |-> Undef, _endNodeLabel |-> Undef,
     _startNodeWhere |-> Undef, _endNodeWhere |-> Undef,
     _relationWhere |-> Undef,
     _limit |-> Undef, _orderBy |-> Undef,
     _returnStart |-> Undef, _returnEnd |-> Undef, _returnRelation |-> Undef]

set_type(b, type) ==
    IF isString(type) /\ ~isEmpty(type) THEN [b EXCEPT !._type = type] ELSE b

constructor(type) == set_type(NewQuery, type)

startNode(b, nodeId, label) ==
    LET b1 == IF isInteger(nodeId) THEN [b EXCEPT !._startNodeId = nodeId] ELSE b
    IN IF isString(label) THEN [b1 EXCEPT !._startNodeLabel = label] ELSE b1

endNode(b, nodeId, label) ==
    LET b1 == IF isInteger(nodeId) THEN [b EXCEPT !._endNodeId = nodeId] ELSE b
    IN IF isString(label) THEN [b1 EXCEPT !._endNodeLabel = label] ELSE b1

\* The three filter setters: the builder's side, and the side effect on the
\* filter object itself (its `variable` is assigned through the reference).
WhereAccepted(where) == ~NotNull(where) \/ instanceofWhere(where)

StampVariable(wv, where, variable) ==
    IF WhereAccepted(where) /\ Truthy(where)
    THEN [wv EXCEPT ![where.v] = variable]
    ELSE wv

startNodeWhere(b, where) ==
    IF WhereAccepted(where) THEN [b EXCEPT !._startNodeWhere = where] ELSE b

endNodeWhere(b, where) ==
    IF WhereAccepted(where) THEN [b EXCEPT !._endNodeWhere = where] ELSE b

relationWhere(b, where) ==
    IF WhereAccepted(where) THEN [b EXCEPT !._relationWhere = where] ELSE b

limit(b, n) ==
    IF isInteger(n) THEN [b EXCEPT !._limit = n] ELSE b

\* a descOrderBy that merges into an earlier descriptor instead of replacing it
descOrderBy_merging(b, properties) ==
    IF Truthy(b._orderBy)
    THEN [b EXCEPT !._orderBy.properties = properties, !._orderBy.order = "DESC"]
    ELSE [b EXCEPT !._orderBy =
            [t |-> "obj", properties |-> properties,
             startNodeProperties |-> Undef, endNodeProperties |-> Undef,
             order |-> "DESC"]]

descOrderBy(b, properties) ==
    [b EXCEPT !._orderBy =
        [t |-> "obj", properties |-> properties,
         startNodeProperties |-> Undef, endNodeProperties |-> Undef,
         order |-> "DESC"]]

ascOrderBy(b, properties, startNodeProperties, endNodeProperties) ==
    [b EXCEPT !._orderBy =
        [t |-> "obj", properties |-> properties,
         startNodeProperties |-> startNodeProperties,
         endNodeProperties |-> endNodeProperties,
         order |-> "ASC"]]

returnStartNode(b, properties) ==
    IF isValidPropertiesArray(properties)
    THEN [b EXCEPT !._returnStart = JStr(parsePropertiesArray(properties, "n1"))]
    ELSE b

returnEndNode(b, properties) ==
    IF isValidPropertiesArray(properties)
    THEN [b EXCEPT !._returnEnd = JStr(parsePropertiesArray(properties, "n2"))]
    ELSE b

returnRelationNode(b, properties) ==
    IF isValidPropertiesArray(properties)
    THEN [b EXCEPT !._returnRelation = JStr(parsePropertiesArray(properties, "r"))]
    ELSE b

\* ---------------------------------------------------------- the renderers
\* a concatenation that puts the separator before the first term too
_concatWhereClause_leadingAnd(whereClause, newClause) ==
    whereClause \o <<"AND">> \o newClause

_concatWhereClause(whereClause, newClause) ==
    whereClause \o (IF whereClause # <<>> THEN <<"AND">> ELSE <<>>) \o newClause

whereCypher(b, wv) ==
    LET w0 == <<>>
        w1 == IF NotNull(b._startNodeId)
              THEN _concatWhereClause(w0, <<"ID(n1)", "=", ToString(b._startNodeId.v)>>)
              ELSE w0
        w2 == IF NotNull(b._endNodeId)
              THEN _concatWhereClause(w1, <<"ID(n2)", "=", ToString(b._endNodeId.v)>>)
              ELSE w1
        w3 == IF NotNull(b._relationWhere)
              THEN _concatWhereClause(w2, WhereClause(wv, b._relationWhere.v))
              ELSE w2
        w4 == IF NotNull(b._startNodeWhere)
              THEN _concatWhereClause(w3, WhereClause(wv, b._startNodeWhere.v))
              ELSE w3
        w5 == IF NotNull(b._endNodeWhere)
              THEN _concatWhereClause(w4, WhereClause(wv, b._endNodeWhere.v))
              ELSE w4
    IN IF w5 # <<>> THEN <<"WHERE">> \o w5 ELSE <<>>

_startNodeClause(b) ==
    <<"n1">> \o (IF NotNull(b._startNodeLabel) THEN <<":">> \o b._startNodeLabel.v ELSE <<>>)

_endNodeClause(b) ==
    <<"n2">> \o (IF NotNull(b._endNodeLabel) THEN <<":">> \o b._endNodeLabel.v ELSE <<>>)

_relationClause(b) ==
    <<"r">> \o (IF NotNull(b._type) THEN <<":">> \o b._type.v ELSE <<>>)

matchCypher(b, wv) ==
    <<"MATCH", "p=(">> \o _startNodeClause(b) \o <<")-[">> \o _relationClause(b)
    \o <<"]->(">> \o _endNodeClause(b) \o <<")">> \o whereCypher(b, wv)

\* a return clause that lists the end projection before the start projection
returnClause_endFirst(b, populated) ==
    LET r0 == IF Truthy(b._returnRelation) THEN b._returnRelation.v ELSE <<"r">>
        r1 == IF populated
              THEN r0 \o <<",">> \o (IF Truthy(b._returnEnd) THEN b._returnEnd.v ELSE <<"n2">>)
                      \o <<",">> \o (IF Truthy(b._returnStart) THEN b._returnStart.v ELSE <<"n1">>)
              ELSE r0
    IN <<"RETURN">> \o r1

returnClause(b, populated) ==
    LET r0 == IF Truthy(b._returnRelation) THEN b._returnRelation.v ELSE <<"r">>
        r1 == IF populated
              THEN r0 \o <<",">> \o (IF Truthy(b._returnStart) THEN b._returnStart.v ELSE <<"n1">>)
                      \o <<",">> \o (IF Truthy(b._returnEnd) THEN b._returnEnd.v ELSE <<"n2">>)
              ELSE r0
    IN <<"RETURN">> \o r1

\* nodes and distinct are JavaScript values: `!nodes`, `nodes === 'start'`.
nodesReturnClause(b, nodes, distinct) ==
    LET distinctClause == IF Truthy(distinct) THEN <<"DISTINCT">> ELSE <<>>
        c1 == IF ~Truthy(nodes) \/ nodes = JStr(<<"start">>) \/ nodes = JStr(<<"both">>)
              THEN (IF Truthy(b._returnStart) THEN b._returnStart.v ELSE <<"n1">>)
              ELSE <<>>
        c2 == IF ~Truthy(nodes) \/ nodes = JStr(<<"end">>) \/ nodes = JStr(<<"both">>)
              THEN c1 \o (IF c1 # <<>> THEN <<",">> ELSE <<>>)
                      \o (IF Truthy(b._returnEnd) THEN b._returnEnd.v ELSE <<"n2">>)
              ELSE c1
    IN <<"RETURN">> \o distinctClause \o c2

_addOrderByClause(clause, properties, variable) ==
    IF isValidPropertiesArray(properties)
    THEN clause \o (IF clause # <<>> THEN <<",">> ELSE <<>>)
                \o parsePropertiesArray(properties, variable)
    ELSE clause

orderByClause(b) ==
    IF Truthy(b._orderBy)
    THEN LET o1 == _addOrderByClause(<<>>, b._orderBy.properties, "r")
             o2 == _addOrderByClause(o1, b._orderBy.startNodeProperties, "n1")
             o3 == _addOrderByClause(o2, b._orderBy.endNodeProperties, "n2")
         IN IF o3 # <<>> THEN <<"ORDER BY">> \o o3 \o <<b._orderBy.order>> ELSE <<>>
    ELSE <<>>

limitClause(b) ==
    IF Truthy(b._limit) THEN <<"LIMIT", ToString(b._limit.v)>> ELSE <<>>

_queryCypherBuilder(b, wv, populated) ==
    LET query == matchCypher(b, wv) \o returnClause(b, populated)
        orderBy == orderByClause(b)
        lim == limitClause(b)
        q1 == IF orderBy # <<>> THEN query \o orderBy ELSE query
    IN IF lim # <<>> THEN q1 \o lim ELSE q1

queryCypher(b, wv) == _queryCypherBuilder(b, wv, FALSE)

queryPopulatedCypher(b, wv) == _queryCypherBuilder(b, wv, TRUE)

queryNodesCypher(b, wv, nodes, distinct) ==
    LET query == matchCypher(b, wv) \o nodesReturnClause(b, nodes, distinct)
        orderBy == orderByClause(b)
        lim == limitClause(b)
        q1 == IF orderBy # <<>> THEN query \o orderBy ELSE query
    IN IF lim # <<>> THEN q1 \o lim ELSE q1

\* a count query over the bare pattern, without the where clause
countCypher_unfiltered(b, wv) ==
    <<"MATCH", "p=(">> \o _startNodeClause(b) \o <<")-[">> \o _relationClause(b)
    \o <<"]->(">> \o _endNodeClause(b) \o <<")">>
    \o <<"RETURN", "COUNT(r)", "as", "count">>

\* a count query that takes the limit clause like the other queries
countCypher_limited(b, wv) ==
    matchCypher(b, wv) \o <<"RETURN", "COUNT(r)", "as", "count">> \o limitClause(b)

countCypher(b, wv) ==
    matchCypher(b, wv) \o <<"RETURN", "COUNT(r)", "as", "count">>



\* ------------------------------------------- the relation operations facade
\* OGMNeoRelation is not among the sources (its tests are): it is modelled
\* from its contract and from the messages the tests expect.  A verb checks
\* its arguments first and rejects with a fixed message, and only otherwise
\* calls the driver's run, whose answer settles the call later.
MsgRelateIds == "Ids from node must to be integers"
MsgRelateType == "A relatioship type must be specified"
MsgUpdateId == "Relation id must to be integer"
MsgFilter == "The propertiesFilter object must be an instance of OGMNeoWhere"
MsgBothIds == "Both node ids have to be integers numbers"
MsgDeleteId == "Relation id must to be an integer number"

NoArgs == [id |-> Undef, n1 |-> Undef, n2 |-> Undef, type |-> Undef, filter |-> Undef]
NoCall == [verb |-> "none", args |-> NoArgs, status |-> "none", message |-> ""]

FilterOk(x) == ~NotNull(x) \/ instanceofWhere(x)
TypeOk(x) == isString(x) /\ ~isEmpty(x)

\* Each verb's validation: the message it rejects with, "" when it accepts.
\* relate checks the ids before the type (the tests pass both wrong and expect
\* the ids' message).
relate(a) ==
    IF ~(isInteger(a.n1) /\ isInteger(a.n2)) THEN {MsgRelateIds}
    ELSE IF ~TypeOk(a.type) THEN {MsgRelateType}
    ELSE {""}

update(a) == IF isInteger(a.id) THEN {""} ELSE {MsgUpdateId}

deleteRelation(a) == IF isInteger(a.id) THEN {""} ELSE {MsgDeleteId}

\* a find that checks the first node id only
find_firstIdOnly(a) == IF isInteger(a.n1) THEN {""} ELSE {MsgBothIds}

find(a) == IF isInteger(a.n1) /\ isInteger(a.n2) THEN {""} ELSE {MsgBothIds}

findPopulated(a) == IF isInteger(a.n1) /\ isInteger(a.n2) THEN {""} ELSE {MsgBothIds}

count(a) == IF isInteger(a.n1) /\ isInteger(a.n2) THEN {""} ELSE {MsgBothIds}

\* exists is count(...) > 0: it validates as count does.
exists(a) == count(a)

\* updateMany and deleteMany check the ids and the filter; which check comes
\* first when both fail is not stated: either message may result.
updateMany(a) ==
    LET bad == (IF isInteger(a.n1) /\ isInteger(a.n2) THEN {} ELSE {MsgBothIds})
               \cup (IF FilterOk(a.filter) THEN {} ELSE {MsgFilter})
    IN IF bad = {} THEN {""} ELSE bad

deleteMany(a) ==
    LET bad == (IF isInteger(a.n1) /\ isInteger(a.n2) THEN {} ELSE {MsgBothIds})
               \cup (IF FilterOk(a.filter) THEN {} ELSE {MsgFilter})
    IN IF bad = {} THEN {""} ELSE bad

Verbs ==
    {"relate", "update", "updateMany", "find", "findPopulated", "count", "exists",
     "deleteRelation", "deleteMany"}

Validate(verb, a) ==
    CASE verb = "relate" -> relate(a)
      [] verb = "update" -> update(a)
      [] verb = "updateMany" -> updateMany(a)
      [] verb = "find" -> find(a)
      [] verb = "findPopulated" -> findPopulated(a)
      [] verb = "count" -> count(a)
      [] verb = "exists" -> exists(a)
      [] verb = "deleteRelation" -> deleteRelation(a)
      [] verb = "deleteMany" -> deleteMany(a)

FacIdArgs == {JStr(<<"x">>)} \cup {JInt(n) : n \in 0..MaxId}
FacTypeArgs == {Null, JStr(<<>>), JStr(<<"relatedto">>)}
FacFilterArgs == {Null, JStr(<<>>), JRef(1)}
\* the type given to the verbs other than relate
FacFindTypeArgs == {Null, JStr(<<"relatedto">>)}

\* the arguments each verb takes
ArgsOf(verb) ==
    CASE verb \in {"update", "deleteRelation"} ->
           {[NoArgs EXCEPT !.id = i] : i \in FacIdArgs}
      [] verb = "relate" ->
           {[NoArgs EXCEPT !.n1 = i, !.n2 = j, !.type = t] :
              i \in FacIdArgs, j \in FacIdArgs, t \in FacTypeArgs}
      [] OTHER ->
           {[NoArgs EXCEPT !.n1 = i, !.n2 = j, !.type = t, !.filter = f] :
              i \in FacIdArgs, j \in FacIdArgs, t \in FacFindTypeArgs,
              f \in FacFilterArgs}

\* A verb call: the promise's executor runs at once, so the validation, and
\* the driver call of an accepted call, are one step.  A call made while the
\* previous one awaits the driver leaves that one in flight.
Call(verb) ==
    \E a \in ArgsOf(verb) : \E m \in Validate(verb, a) :
        /\ inflight' = inflight + (IF fac.status = "pending" THEN 1 ELSE 0)
        /\ IF m # ""
           THEN /\ fac' = [verb |-> verb, args |-> a, status |-> "rejected", message |-> m]
                /\ runs' = runs
           ELSE /\ fac' = [verb |-> verb, args |-> a, status |-> "pending", message |-> ""]
                /\ runs' = runs + 1

\* The driver answers the latest call: rows, or an error handed on unchanged.
DriverAnswers ==
    /\ fac.status = "pending"
    /\ \E outcome \in {"resolved", "failed"} :
         fac' = [fac EXCEPT !.status = outcome,
                            !.message = IF outcome = "failed" THEN "driver error" ELSE ""]
    /\ UNCHANGED <<runs, inflight, ncalls>>

\* The driver answers an earlier call.
DriverAnswersEarlier ==
    /\ inflight > 0
    /\ inflight' = inflight - 1
    /\ UNCHANGED <<fac, runs, ncalls>>

\* ------------------------------------------------------------ histories
NoUpdate == [verb |-> "none", empty |-> FALSE, args |-> NoArgs, rows |-> <<>>]
NoRender ==
    [method |-> "none", args |-> <<>>, text |-> <<>>, again |-> FALSE, tick |-> 0]
NoHist == [order |-> Undef, limit |-> Undef,
           retStart |-> Undef, retEnd |-> Undef, retRel |-> Undef]

\* ----------------------------------------------------- argument universes
TypeArgs == {Undef, Null, JStr(<<>>), JStr(<<"KNOWS">>), JInt(7)}
IdArgs == {Undef, JStr(<<"x">>)} \cup {JInt(n) : n \in 0..MaxId}
LabelArgs == {Undef, JStr(<<>>), JStr(<<"Person">>), JInt(7)}
WhereArgs == {Undef, Null, Obj, JStr(<<"p = 1">>)} \cup {JRef(w) : w \in Filters}
LimitArgs == {Undef, JStr(<<"5">>)} \cup {JInt(n) : n \in -1..MaxLimit}
PropArgs ==
    {Undef, JStr(<<>>), JStr(<<"a">>), JStr(<<"b">>),
     JArr(<<JStr(<<"a">>), JStr(<<"b">>)>>), JInt(7)}
NodesArgs ==
    {Undef, Null, JStr(<<>>), JStr(<<"start">>), JStr(<<"end">>), JStr(<<"both">>),
     JStr(<<"relation">>)}
DistinctArgs == {Undef, JBool(TRUE), JBool(FALSE)}

Init ==
    /\ \E type \in TypeArgs : q = [b \in Builders |-> constructor(type)]
    /\ wvar = [w \in Filters |-> WhereInitVariable]
    /\ hist = [b \in Builders |-> NoHist]
    /\ ncalls = 0
    /\ fac = NoCall
    /\ runs = 0
    /\ inflight = 0
    /\ store = <<>>
    /\ out = NoUpdate
    /\ rout = NoRender

\* ---------------------------------------------------------------- actions
\* One action per setter call on query object b.
SetType(b) ==
    \E type \in TypeArgs :
        /\ q' = [q EXCEPT ![b] = set_type(q[b], type)]
        /\ UNCHANGED <<wvar, hist>>

StartNode(b) ==
    \E nodeId \in IdArgs, label \in LabelArgs :
        /\ q' = [q EXCEPT ![b] = startNode(q[b], nodeId, label)]
        /\ UNCHANGED <<wvar, hist>>

EndNode(b) ==
    \E nodeId \in IdArgs, label \in LabelArgs :
        /\ q' = [q EXCEPT ![b] = endNode(q[b], nodeId, label)]
        /\ UNCHANGED <<wvar, hist>>

\* startNode(id) / endNode(id): the label omitted
StartNodeId(b) ==
    \E nodeId \in IdArgs :
        /\ q' = [q EXCEPT ![b] = startNode(q[b], nodeId, Undef)]
        /\ UNCHANGED <<wvar, hist>>

EndNodeId(b) ==
    \E nodeId \in IdArgs :
        /\ q' = [q EXCEPT ![b] = endNode(q[b], nodeId, Undef)]
        /\ UNCHANGED <<wvar, hist>>

StartNodeWhere(b) ==
    \E where \in WhereArgs :
        /\ q' = [q EXCEPT ![b] = startNodeWhere(q[b], where)]
        /\ wvar' = StampVariable(wvar, where, "n1")
        /\ UNCHANGED hist

EndNodeWhere(b) ==
    \E where \in WhereArgs :
        /\ q' = [q EXCEPT ![b] = endNodeWhere(q[b], where)]
        /\ wvar' = StampVariable(wvar, where, "n2")
        /\ UNCHANGED hist

RelationWhere(b) ==
    \E where \in WhereArgs :
        /\ q' = [q EXCEPT ![b] = relationWhere(q[b], where)]
        /\ wvar' = StampVariable(wvar, where, "r")
        /\ UNCHANGED hist

Limit(b) ==
    \E n \in LimitArgs :
        /\ q' = [q EXCEPT ![b] = limit(q[b], n)]
        /\ hist' = [hist EXCEPT ![b].limit = IF n.t = "int" THEN n ELSE @]
        /\ UNCHANGED wvar

DescOrderBy(b) ==
    \E properties \in PropArgs :
        /\ q' = [q EXCEPT ![b] = descOrderBy(q[b], properties)]
        /\ hist' = [hist EXCEPT ![b].order =
                      [t |-> "call", dir |-> "DESC", lists |-> <<properties>>,
                       replaced |-> Truthy(q[b]._orderBy)]]
        /\ UNCHANGED wvar

AscOrderBy(b) ==
    \E properties \in PropArgs, startNodeProperties \in PropArgs \cup {Null},
       endNodeProperties \in PropArgs \cup {Null} :
        /\ q' = [q EXCEPT ![b] =
                   ascOrderBy(q[b], properties, startNodeProperties, endNodeProperties)]
        /\ hist' = [hist EXCEPT ![b].order =
                      [t |-> "call", dir |-> "ASC",
                       lists |-> <<properties, startNodeProperties, endNodeProperties>>,
                       replaced |-> Truthy(q[b]._orderBy)]]
        /\ UNCHANGED wvar

ReturnStartNode(b) ==
    \E properties \in PropArgs :
        /\ q' = [q EXCEPT ![b] = returnStartNode(q[b], properties)]
        /\ hist' = [hist EXCEPT ![b].retStart =
                      IF isValidPropertiesArray(properties) THEN properties ELSE @]
        /\ UNCHANGED wvar

ReturnEndNode(b) ==
    \E properties \in PropArgs :
        /\ q' = [q EXCEPT ![b] = returnEndNode(q[b], properties)]
        /\ hist' = [hist EXCEPT ![b].retEnd =
                      IF isValidPropertiesArray(properties) THEN properties ELSE @]
        /\ UNCHANGED wvar

ReturnRelationNode(b) ==
    \E properties \in PropArgs :
        /\ q' = [q EXCEPT ![b] = returnRelationNode(q[b], properties)]
        /\ hist' = [hist EXCEPT ![b].retRel =
                      IF isValidPropertiesArray(properties) THEN properties ELSE @]
        /\ UNCHANGED wvar

\* ---------------------------------------------------------- specifications
\* Every setter on one query object, a bounded number of calls.
Next ==
    /\ ncalls < MaxCalls
    /\ ncalls' = ncalls + 1
    /\ UNCHANGED facvars
    /\ UNCHANGED storevars
    /\ \/ SetType(1)
       \/ StartNode(1)
       \/ EndNode(1)
       \/ StartNodeWhere(1)
       \/ EndNodeWhere(1)
       \/ RelationWhere(1)
       \/ Limit(1)
       \/ DescOrderBy(1)
       \/ AscOrderBy(1)
       \/ ReturnStartNode(1)
       \/ ReturnEndNode(1)
       \/ ReturnRelationNode(1)

Spec == Init /\ [][Next]_vars

\* The setters the where clause reads, on one query object, without bound.
NextWhere ==
    /\ UNCHANGED <<ncalls, fac, runs, inflight>>
    /\ UNCHANGED storevars
    /\ \/ StartNodeId(1)
       \/ EndNodeId(1)
       \/ StartNodeWhere(1)
       \/ EndNodeWhere(1)
       \/ RelationWhere(1)

SpecWhere == Init /\ [][NextWhere]_vars

\* The filter setters on every query object: filter objects are shared.
NextShared ==
    /\ UNCHANGED <<ncalls, fac, runs, inflight>>
    /\ UNCHANGED storevars
    /\ \E b \in Builders :
        \/ StartNodeWhere(b)
        \/ EndNodeWhere(b)
        \/ RelationWhere(b)

SpecShared == Init /\ [][NextShared]_vars

\* The ordering setters.
NextOrder ==
    /\ UNCHANGED <<ncalls, fac, runs, inflight>>
    /\ UNCHANGED storevars
    /\ \/ DescOrderBy(1)
       \/ AscOrderBy(1)

SpecOrder == Init /\ [][NextOrder]_vars

\* The projection setters.
NextReturn ==
    /\ UNCHANGED <<ncalls, fac, runs, inflight>>
    /\ UNCHANGED storevars
    /\ \/ ReturnStartNode(1)
       \/ ReturnEndNode(1)
       \/ ReturnRelationNode(1)

SpecReturn == Init /\ [][NextReturn]_vars

\* What the count query reads (type, endpoint ids, relation filter) and
\* setters it must ignore (limit, projection).
NextCount ==
    /\ UNCHANGED <<ncalls, fac, runs, inflight>>
    /\ UNCHANGED storevars
    /\ \/ SetType(1)
       \/ StartNodeId(1)
       \/ EndNodeId(1)
       \/ RelationWhere(1)
       \/ Limit(1)
       \/ ReturnRelationNode(1)

SpecCount == Init /\ [][NextCount]_vars


\* The render methods, called on query object 1.
RenderMethods ==
    {"matchCypher", "whereCypher", "returnClause", "nodesReturnClause",
     "orderByClause", "limitClause", "queryCypher", "queryPopulatedCypher",
     "queryNodesCypher", "countCypher"}

\* the arguments each render method is called with
RenderArgs(method) ==
    CASE method = "returnClause" -> {<<JBool(TRUE)>>, <<JBool(FALSE)>>}
      [] method \in {"nodesReturnClause", "queryNodesCypher"} ->
           {<<JStr(<<"start">>), JBool(TRUE)>>, <<JStr(<<"both">>), JBool(FALSE)>>}
      [] OTHER -> {<<>>}

\* the string a render method returns
RenderOf(method, args, b, wv) ==
    CASE method = "matchCypher" -> matchCypher(b, wv)
      [] method = "whereCypher" -> whereCypher(b, wv)
      [] method = "returnClause" -> returnClause(b, Truthy(args[1]))
      [] method = "nodesReturnClause" -> nodesReturnClause(b, args[1], args[2])
      [] method = "orderByClause" -> orderByClause(b)
      [] method = "limitClause" -> limitClause(b)
      [] method = "queryCypher" -> queryCypher(b, wv)
      [] method = "queryPopulatedCypher" -> queryPopulatedCypher(b, wv)
      [] method = "queryNodesCypher" -> queryNodesCypher(b, wv, args[1], args[2])
      [] method = "countCypher" -> countCypher(b, wv)

\* a render that uses its limit up: the limit is dropped once it is rendered
Render_consumingLimit(method) ==
    \E args \in RenderArgs(method) :
        /\ rout' = [method |-> method, args |-> args,
                    text |-> RenderOf(method, args, q[1], wvar),
                    again |-> rout.method = method /\ rout.args = args,
                    tick |-> 1 - rout.tick]
        /\ q' = [q EXCEPT ![1]._limit = IF method = "limitClause" THEN Undef ELSE @]
        /\ UNCHANGED <<wvar, hist>>

\* A render call: it reads the fields and the filters and assigns nothing.
Render(method) ==
    \E args \in RenderArgs(method) :
        /\ rout' = [method |-> method, args |-> args,
                    text |-> RenderOf(method, args, q[1], wvar),
                    again |-> rout.method = method /\ rout.args = args,
                    tick |-> 1 - rout.tick]
        /\ UNCHANGED <<q, wvar, hist>>

\* Setter calls and render calls on one query object, in any order.
NextRender ==
    /\ UNCHANGED <<ncalls, facvars, store, out>>
    /\ \/ /\ \/ RelationWhere(1)
             \/ Limit(1)
          /\ rout' = [NoRender EXCEPT !.tick = rout.tick]
       \/ \E method \in RenderMethods : Render(method)

SpecRender == Init /\ [][NextRender]_vars

\* The facade's verbs, a bounded number of calls, and the driver's answers.
NextFacade ==
    /\ UNCHANGED qvars
    /\ UNCHANGED storevars
    /\ \/ /\ ncalls < MaxCalls
          /\ ncalls' = ncalls + 1
          /\ \E verb \in Verbs : Call(verb)
       \/ DriverAnswers
       \/ DriverAnswersEarlier

SpecFacade == Init /\ [][NextFacade]_vars

\* ================================================================= claims
RECURSIVE JoinWith(_, _)
\* the texts of a sequence, joined by a separator token
JoinWith(texts, sep) ==
    IF texts = <<>> THEN <<>>
    ELSE IF Len(texts) = 1 THEN texts[1]
    ELSE texts[1] \o <<sep>> \o JoinWith(Tail(texts), sep)

\* The five possible terms of the where clause of b, each with its presence.
WhereTerms(b, wv) ==
    <<[present |-> b._startNodeId.t = "int",
       text |-> IF b._startNodeId.t = "int"
                THEN <<"ID(n1)", "=", ToString(b._startNodeId.v)>> ELSE <<>>],
      [present |-> b._endNodeId.t = "int",
       text |-> IF b._endNodeId.t = "int"
                THEN <<"ID(n2)", "=", ToString(b._endNodeId.v)>> ELSE <<>>],
      [present |-> b._relationWhere.t = "where",
       text |-> IF b._relationWhere.t = "where"
                THEN WhereClause(wv, b._relationWhere.v) ELSE <<>>],
      [present |-> b._startNodeWhere.t = "where",
       text |-> IF b._startNodeWhere.t = "where"
                THEN WhereClause(wv, b._startNodeWhere.v) ELSE <<>>],
      [present |-> b._endNodeWhere.t = "where",
       text |-> IF b._endNodeWhere.t = "where"
                THEN WhereClause(wv, b._endNodeWhere.v) ELSE <<>>]>>

IsPresent(term) == term.present

PresentTexts(b, wv) ==
    LET sel == SelectSeq(WhereTerms(b, wv), IsPresent)
    IN [i \in 1..Len(sel) |-> sel[i].text]

\* C1: whereCypher() is the ' AND '-joined conjunction of exactly the terms
\* that are present, in the order start id, end id, relation filter, start
\* filter, end filter, prefixed by WHERE; with no term present it is the empty
\* string.
C1_WhereIsConjunctionOfPresentTerms ==
    LET texts == PresentTexts(q[1], wvar)
    IN whereCypher(q[1], wvar) =
         IF texts = <<>> THEN <<>> ELSE <<"WHERE">> \o JoinWith(texts, "AND")

\* all five terms are present, and rendered
C1_Witness_AllFiveTerms ==
    /\ \A i \in 1..5 : WhereTerms(q[1], wvar)[i].present
    /\ Len(whereCypher(q[1], wvar)) = 26

\* The variables the filter terms of a rendered where clause are scoped to, in
\* the order of the terms: the token before each '.'.
ScopesOf(text) ==
    LET at == {i \in 1..Len(text) : i < Len(text) /\ text[i + 1] = "."}
        ord == SelectSeq([i \in 1..Len(text) |-> i], LAMBDA i : i \in at)
    IN [k \in 1..Len(ord) |-> text[ord[k]]]

\* The roles of the filters b holds, in rendering order.
RolesOf(b) ==
    (IF b._relationWhere.t = "where" THEN <<"r">> ELSE <<>>)
    \o (IF b._startNodeWhere.t = "where" THEN <<"n1">> ELSE <<>>)
    \o (IF b._endNodeWhere.t = "where" THEN <<"n2">> ELSE <<>>)

\* C2: in every rendered where clause, of every query object, the relation
\* filter term is scoped to r, the start-node filter term to n1 and the
\* end-node filter term to n2, also when one filter object was passed to
\* several setters.
C2_FilterTermsScopedToTheirRole ==
    \A b \in Builders : ScopesOf(whereCypher(q[b], wvar)) = RolesOf(q[b])


\* ------------------------------------------------------------------- C3
\* Every render of a query object, as one tuple.
Renders(b, wv) ==
    <<matchCypher(b, wv), whereCypher(b, wv), returnClause(b, FALSE),
      returnClause(b, TRUE), nodesReturnClause(b, JStr(<<"both">>), JBool(FALSE)),
      orderByClause(b), limitClause(b), queryCypher(b, wv),
      queryPopulatedCypher(b, wv),
      queryNodesCypher(b, wv, JStr(<<"both">>), JBool(FALSE)), countCypher(b, wv)>>

\* An argument that is given (not omitted) and is not of the kind the setter's
\* contract asks for.
BadType(x) == ~(x.t = "str" /\ x.v # <<>>)
BadId(x) == x # Undef /\ x.t # "int"
BadLabel(x) == x # Undef /\ x.t # "str"
BadWhere(x) == x.t \notin {"undef", "null", "where"}
BadLimit(x) == x.t # "int"
BadProps(x) == x.t \notin {"undef", "null"} /\ ~isValidPropertiesArray(x)
AbsentProps(x) == x.t \in {"undef", "null"}

\* C3: a call of any chained setter with a malformed argument (and no
\* well-formed one) leaves every render of the query object as it was.
C3_MalformedCallChangesNoRender ==
    LET b == q[1]
        R == Renders(b, wvar)
    IN /\ \A x \in TypeArgs : BadType(x) => Renders(set_type(b, x), wvar) = R
       /\ \A i \in IdArgs, l \in LabelArgs :
            ((BadId(i) \/ BadLabel(l)) /\ i.t # "int" /\ l.t # "str")
            => /\ Renders(startNode(b, i, l), wvar) = R
               /\ Renders(endNode(b, i, l), wvar) = R
       /\ \A x \in WhereArgs :
            BadWhere(x)
            => /\ Renders(startNodeWhere(b, x), StampVariable(wvar, x, "n1")) = R
               /\ Renders(endNodeWhere(b, x), StampVariable(wvar, x, "n2")) = R
               /\ Renders(relationWhere(b, x), StampVariable(wvar, x, "r")) = R
       /\ \A x \in LimitArgs : BadLimit(x) => Renders(limit(b, x), wvar) = R
       /\ \A x \in PropArgs :
            BadProps(x)
            => /\ Renders(returnStartNode(b, x), wvar) = R
               /\ Renders(returnEndNode(b, x), wvar) = R
               /\ Renders(returnRelationNode(b, x), wvar) = R
               /\ Renders(descOrderBy(b, x), wvar) = R
               /\ \A y \in {Undef, Null, x} :
                    Renders(ascOrderBy(b, x, y, y), wvar) = R

\* ------------------------------------------------------------------- C4
EndsWith(text, suffix) ==
    /\ Len(text) >= Len(suffix)
    /\ SubSeq(text, Len(text) - Len(suffix) + 1, Len(text)) = suffix

HasToken(text, tok) == \E i \in 1..Len(text) : text[i] = tok

\* the three full queries of b, the node query for every argument pair
FullQueries(b, wv) ==
    {queryCypher(b, wv), queryPopulatedCypher(b, wv)}
    \cup {queryNodesCypher(b, wv, nodes, distinct) :
            nodes \in NodesArgs, distinct \in DistinctArgs}

\* C4: once limit(n) was called with an integer n, every full query ends with
\* LIMIT n for the last such n; while no integer was passed to limit, no full
\* query holds a LIMIT clause.
C4_LimitClauseExactlyWhenSet ==
    LET n == hist[1].limit
    IN \A text \in FullQueries(q[1], wvar) :
        IF n.t = "int" THEN EndsWith(text, <<"LIMIT", ToString(n.v)>>)
        ELSE ~HasToken(text, "LIMIT")


\* ------------------------------------------------------------------- C5
\* The property lists of an ordering call that render, each with the variable
\* of its position (relation, start node, end node), in that order.
ListVariable(i) == <<"r", "n1", "n2">>[i]

RenderedLists(call) ==
    LET idx == SelectSeq([i \in 1..Len(call.lists) |-> i],
                         LAMBDA i : isValidPropertiesArray(call.lists[i]))
    IN [k \in 1..Len(idx) |->
          parsePropertiesArray(call.lists[idx[k]], ListVariable(idx[k]))]

\* C5 as stated: after any ordering calls the clause is ORDER BY, the rendered
\* lists of the latest call alone, and that call's direction; it is empty when
\* no ordering call was made.
C5_OrderByOfLatestCall_AsStated ==
    LET call == hist[1].order
    IN orderByClause(q[1]) =
         IF call = Undef THEN <<>>
         ELSE <<"ORDER BY">> \o JoinWith(RenderedLists(call), ",") \o <<call.dir>>

\* C5 as amended: the clause is determined by the latest ordering call alone;
\* it is ORDER BY, the rendered relation, start-node and end-node lists of that
\* call, comma-joined, and the call's direction when at least one list of the
\* call is a valid property list, and it is empty when none is or when no
\* ordering call was made.
C5_OrderByOfLatestCall ==
    LET call == hist[1].order
    IN orderByClause(q[1]) =
         IF call = Undef \/ RenderedLists(call) = <<>> THEN <<>>
         ELSE <<"ORDER BY">> \o JoinWith(RenderedLists(call), ",") \o <<call.dir>>

\* a descOrderBy call has replaced an earlier descriptor and is rendered
C5_Witness_DescReplacedEarlier ==
    /\ hist[1].order # Undef
    /\ hist[1].order.dir = "DESC"
    /\ hist[1].order.replaced
    /\ orderByClause(q[1]) = <<"ORDER BY", "r", ".", "a", ",", "r", ".", "b", "DESC">>

\* ------------------------------------------------------------------- C6
\* The calls the count query must ignore, applied to b.
AfterIgnoredCall(b) ==
    {limit(b, n) : n \in LimitArgs}
    \cup {descOrderBy(b, p) : p \in PropArgs}
    \cup {ascOrderBy(b, p, s, e) : p \in PropArgs, s \in {Undef, JStr(<<"a">>)},
                                   e \in {Undef, JStr(<<"b">>)}}
    \cup {returnStartNode(b, p) : p \in PropArgs}
    \cup {returnEndNode(b, p) : p \in PropArgs}
    \cup {returnRelationNode(b, p) : p \in PropArgs}

\* the tokens of a text before its first RETURN
BeforeReturn(text) ==
    LET at == {i \in 1..Len(text) : text[i] = "RETURN"}
        first == CHOOSE i \in at : \A j \in at : i <= j
    IN IF at = {} THEN text ELSE SubSeq(text, 1, first - 1)

CountIgnoresProjectionOrderLimit(tail) ==
    LET b == q[1]
        c == countCypher(b, wvar)
    IN /\ \A b2 \in AfterIgnoredCall(b) : countCypher(b2, wvar) = c
       /\ c = BeforeReturn(queryCypher(b, wvar)) \o tail
       /\ BeforeReturn(c) = matchCypher(b, wvar)

Reserved ==
    {"MATCH", "p=(", "n1", "n2", "r", ":", ")-[", "]->(", ")", "WHERE", "AND",
     "RETURN", "DISTINCT", ",", "ORDER BY", "ASC", "DESC", "LIMIT", ".", "=",
     "ID(n1)", "ID(n2)", "<eof>"}

Tok(text, i) == IF i >= 1 /\ i <= Len(text) THEN text[i] ELSE "<eof>"
IsName(tok) == tok \notin Reserved
IsVar(tok) == tok \in {"n1", "n2", "r"}

Expect(text, i, tok) == IF i # 0 /\ Tok(text, i) = tok THEN i + 1 ELSE 0

\* [: Name]
OptSuffix(text, i) ==
    IF i = 0 THEN 0
    ELSE IF Tok(text, i) = ":"
         THEN (IF IsName(Tok(text, i + 1)) THEN i + 2 ELSE 0)
         ELSE i

\* proj: a variable, or variable.property
ParseProj(text, i) ==
    IF i = 0 \/ ~IsVar(Tok(text, i)) THEN 0
    ELSE IF Tok(text, i + 1) = "."
         THEN (IF IsName(Tok(text, i + 2)) THEN i + 3 ELSE 0)
         ELSE i + 1

RECURSIVE ParseProjList(_, _)
ParseProjList(text, i) ==
    LET j == ParseProj(text, i)
    IN IF j = 0 THEN 0
       ELSE IF Tok(text, j) = "," THEN ParseProjList(text, j + 1) ELSE j

\* cond: ID(n) = number, or variable.field = value
ParseCond(text, i) ==
    IF i = 0 THEN 0
    ELSE IF Tok(text, i) \in {"ID(n1)", "ID(n2)"}
         THEN (IF Tok(text, i + 1) = "=" /\ IsName(Tok(text, i + 2)) THEN i + 3 ELSE 0)
         ELSE IF /\ IsVar(Tok(text, i)) /\ Tok(text, i + 1) = "."
                 /\ IsName(Tok(text, i + 2)) /\ Tok(text, i + 3) = "="
                 /\ IsName(Tok(text, i + 4))
              THEN i + 5 ELSE 0

RECURSIVE ParseCondList(_, _)
ParseCondList(text, i) ==
    LET j == ParseCond(text, i)
    IN IF j = 0 THEN 0
       ELSE IF Tok(text, j) = "AND" THEN ParseCondList(text, j + 1) ELSE j

WellFormedQuery(text) ==
    LET p1 == OptSuffix(text, Expect(text, Expect(text, Expect(text, 1, "MATCH"), "p=("), "n1"))
        p2 == OptSuffix(text, Expect(text, Expect(text, p1, ")-["), "r"))
        p3 == OptSuffix(text, Expect(text, Expect(text, p2, "]->("), "n2"))
        p4 == Expect(text, p3, ")")
        p5 == IF Tok(text, p4) = "WHERE" THEN ParseCondList(text, p4 + 1) ELSE p4
        p6 == Expect(text, p5, "RETURN")
        p7 == IF p6 # 0 /\ Tok(text, p6) = "DISTINCT" THEN p6 + 1 ELSE p6
        p8 == ParseProjList(text, p7)
        p9 == IF p8 # 0 /\ Tok(text, p8) = "ORDER BY"
              THEN LET j == ParseProjList(text, p8 + 1)
                   IN IF j # 0 /\ Tok(text, j) \in {"ASC", "DESC"} THEN j + 1 ELSE 0
              ELSE p8
        p10 == IF p9 # 0 /\ Tok(text, p9) = "LIMIT"
               THEN (IF IsName(Tok(text, p9 + 1)) THEN p9 + 2 ELSE 0)
               ELSE p9
    IN p10 = Len(text) + 1

\* C7: whatever setters were called and whatever the arguments of the render
\* call, queryCypher(), queryPopulatedCypher() and queryNodesCypher(nodes,
\* distinct) have the query shape: a label or type suffix only with a non-empty
\* name, at least one projection after RETURN, every optional clause complete
\* or absent.
C7_QueriesAreWellFormed ==
    \A text \in FullQueries(q[1], wvar) : WellFormedQuery(text)

\* -------------------------------------------------------------- C8, C9
\* The projection of a role: the variable alone when no valid argument was
\* ever given, else the comma-joined <variable>.<name> of the last valid one.
NamesOf(arg) == IF arg.t = "str" THEN <<arg.v>> ELSE [i \in 1..Len(arg.v) |-> arg.v[i].v]

ProjectionOf(arg, variable) ==
    IF arg = Undef THEN <<variable>>
    ELSE JoinWith([i \in 1..Len(NamesOf(arg)) |-> <<variable, ".">> \o NamesOf(arg)[i]], ",")

\* C8: returnClause(populated) is RETURN and the relation projection (of the
\* last valid returnRelationNode call, else r), followed when populated by the
\* start projection (else n1) and the end projection (else n2), in this order;
\* when not populated, no start or end projection appears.
C8_ReturnClause ==
    LET rel == ProjectionOf(hist[1].retRel, "r")
        start == ProjectionOf(hist[1].retStart, "n1")
        end == ProjectionOf(hist[1].retEnd, "n2")
    IN /\ returnClause(q[1], FALSE) = <<"RETURN">> \o rel
       /\ returnClause(q[1], TRUE) = <<"RETURN">> \o rel \o <<",">> \o start \o <<",">> \o end
       /\ ~HasToken(returnClause(q[1], FALSE), "n1")
       /\ ~HasToken(returnClause(q[1], FALSE), "n2")

\* the three projections were set by valid calls, to different lists
C8_Witness_AllProjectionsSet ==
    /\ hist[1].retRel = JStr(<<"a">>)
    /\ hist[1].retStart = JArr(<<JStr(<<"a">>), JStr(<<"b">>)>>)
    /\ hist[1].retEnd = JStr(<<"b">>)
    /\ Len(returnClause(q[1], TRUE)) = 16
    /\ Len(returnClause(q[1], FALSE)) = 4

\* C9: nodesReturnClause(nodes, distinct) projects endpoint nodes only: the
\* start projection for 'start', the end projection for 'end', start then end
\* for 'both', DISTINCT right after RETURN exactly when asked for; for every
\* value of nodes the list holds one or both endpoint projections; and
\* queryNodesCypher(nodes, distinct) holds that clause after the match clause.
C9_NodesReturnClause ==
    LET b == q[1]
        start == ProjectionOf(hist[1].retStart, "n1")
        end == ProjectionOf(hist[1].retEnd, "n2")
        both == start \o <<",">> \o end
    IN \A nodes \in NodesArgs, distinct \in DistinctArgs :
        LET head == <<"RETURN">> \o (IF distinct = JBool(TRUE) THEN <<"DISTINCT">> ELSE <<>>)
            c == nodesReturnClause(b, nodes, distinct)
            m == matchCypher(b, wvar)
        IN /\ nodes = JStr(<<"start">>) => c = head \o start
           /\ nodes = JStr(<<"end">>) => c = head \o end
           /\ nodes = JStr(<<"both">>) => c = head \o both
           /\ c \in {head \o start, head \o end, head \o both}
           /\ SubSeq(queryNodesCypher(b, wvar, nodes, distinct), 1, Len(m) + Len(c)) = m \o c


\* ------------------------------------------------------------------ C10
\* The messages keyed to the preconditions of a verb that the arguments
\* violate: node ids that are not integers, a relation id that is not an
\* integer, a relation type that is missing or empty (relate), a filter that
\* is neither null nor a filter instance (updateMany, deleteMany).
ViolatedMessages(verb, a) ==
    (IF verb = "relate" /\ (a.n1.t # "int" \/ a.n2.t # "int")
     THEN {MsgRelateIds} ELSE {})
    \cup (IF verb = "relate" /\ (a.type.t # "str" \/ a.type.v = <<>>)
          THEN {MsgRelateType} ELSE {})
    \cup (IF /\ verb \in {"updateMany", "find", "findPopulated", "count", "exists",
                          "deleteMany"}
             /\ (a.n1.t # "int" \/ a.n2.t # "int")
          THEN {MsgBothIds} ELSE {})
    \cup (IF verb = "update" /\ a.id.t # "int" THEN {MsgUpdateId} ELSE {})
    \cup (IF verb = "deleteRelation" /\ a.id.t # "int" THEN {MsgDeleteId} ELSE {})
    \cup (IF /\ verb \in {"updateMany", "deleteMany"}
             /\ a.filter.t \notin {"undef", "null", "where"}
          THEN {MsgFilter} ELSE {})

RejectedWithFixedMessage ==
    (fac.verb # "none" /\ ViolatedMessages(fac.verb, fac.args) # {})
    => /\ fac.status = "rejected"
       /\ fac.message \in ViolatedMessages(fac.verb, fac.args)

NoRunForInvalidCall ==
    (ncalls' # ncalls /\ ViolatedMessages(fac'.verb, fac'.args) # {}) => runs' = runs

\* C10: a call of any facade verb whose arguments violate its precondition
\* is rejected with the fixed message of a violated precondition, stays
\* rejected, and the driver's run is not called for it.
C10_ValidationPrecedesExecution ==
    []RejectedWithFixedMessage /\ [][NoRunForInvalidCall]_vars

\* after a call that ran, updateMany with a filter that is no filter instance
\* is rejected, and the driver's run count is still one
C10_Witness_RejectedAfterARun ==
    /\ ncalls = 2
    /\ runs = 1
    /\ fac.verb = "updateMany"
    /\ fac.args.n1.t = "int" /\ fac.args.n2.t = "int"
    /\ fac.status = "rejected"
    /\ fac.message = MsgFilter

\* ================================================ the store of relations
\* The database behind the driver, and what the facade's reading and
\* updating verbs do with it.  Neither the facade nor the driver is among the
\* sources: a verb builds an OGMNeoRelationQuery from its arguments, renders
\* one of its queries and hands the string to the driver's run, which is
\* modelled by what a statement of the generated shape means:
\*   MATCH p=(n1)-[r[:TYPE]]->(n2) [WHERE cond [AND cond]*] RETURN ... [LIMIT n]
\* A relation's id is its position in the store.
NodeLabel == "object"
NoValue == "none"
\* the two nodes the relations are made between
NNodes == 2
NodeIds == 0..(NNodes - 1)

\* the relations a relate call can create: two distinct nodes, the type, and
\* the property the filter reads ('c' or absent)
NewRelations ==
    {[start |-> i, end |-> j, type |-> t, props |-> [p1 |-> v]] :
       i \in NodeIds, j \in NodeIds, t \in {"relatedto", "other"},
       v \in {NoValue, "'c'"}}

PropOf(rel, field) == IF field \in DOMAIN rel.props THEN rel.props[field] ELSE NoValue

TokenAt(text, i) == IF i >= 1 /\ i <= Len(text) THEN text[i] ELSE "<eof>"

\* the first position of a token, 0 when the text has none
PosOf(text, tok) ==
    LET at == {i \in 1..Len(text) : text[i] = tok}
    IN IF at = {} THEN 0 ELSE CHOOSE i \in at : \A j \in at : i <= j

\* the name after `var:` in the pattern, NoValue when the pattern has none
PatternName(text, var) ==
    LET i == PosOf(text, var)
    IN IF TokenAt(text, i + 1) = ":" THEN TokenAt(text, i + 2) ELSE NoValue

\* the conditions of the where clause from token i on, for one relation
RECURSIVE CondsHold(_, _, _)
CondsHold(text, i, rel) ==
    LET tok == TokenAt(text, i)
    IN IF tok \in {"RETURN", "<eof>"} THEN TRUE
       ELSE IF tok \in {"WHERE", "AND"} THEN CondsHold(text, i + 1, rel)
       ELSE IF tok = "ID(n1)"
            THEN TokenAt(text, i + 2) = ToString(rel.start) /\ CondsHold(text, i + 3, rel)
       ELSE IF tok = "ID(n2)"
            THEN TokenAt(text, i + 2) = ToString(rel.end) /\ CondsHold(text, i + 3, rel)
       ELSE \* var . field = value: the nodes carry no property of the filter
            /\ tok = "r"
            /\ PropOf(rel, TokenAt(text, i + 2)) = TokenAt(text, i + 4)
            /\ CondsHold(text, i + 5, rel)

\* what a statement asks of a relation: the names in its pattern and where
\* its conditions start
PatternOf(text) ==
    [n1 |-> PatternName(text, "n1"), n2 |-> PatternName(text, "n2"),
     r |-> PatternName(text, "r"), conds |-> PosOf(text, ")") + 1]

Matches(text, pattern, rel) ==
    /\ pattern.n1 \in {NoValue, NodeLabel}
    /\ pattern.n2 \in {NoValue, NodeLabel}
    /\ pattern.r \in {NoValue, rel.type}
    /\ CondsHold(text, pattern.conds, rel)

\* the ids of the relations a statement matches, in store order
MatchedIds(text, st) ==
    LET pattern == PatternOf(text)
    IN SelectSeq([i \in 1..Len(st) |-> i], LAMBDA i : Matches(text, pattern, st[i]))

Limited(text, ids) ==
    LET tok == TokenAt(text, PosOf(text, "LIMIT") + 1)
    IN IF PosOf(text, "LIMIT") # 0 /\ \E n \in 0..Len(ids) : ToString(n) = tok
       THEN SubSeq(ids, 1, CHOOSE n \in 0..Len(ids) : ToString(n) = tok)
       ELSE ids

\* run(queryString): the rows of a relation query (each the flattened record
\* of one relation), or the one scalar row of a count query
run(text, st) ==
    IF PosOf(text, "COUNT(r)") # 0
    THEN <<[count |-> Len(MatchedIds(text, st))]>>
    ELSE LET ids == Limited(text, MatchedIds(text, st))
         IN [k \in 1..Len(ids) |->
               [id |-> ids[k], type |-> st[ids[k]].type, props |-> st[ids[k]].props]]

\* the query object a verb builds from (start id, end id, type, filter), and
\* the filter variables once the relation filter is attached
QueryOf(a) ==
    relationWhere(endNode(startNode(constructor(a.type), a.n1, Undef), a.n2, Undef),
                  a.filter)

VariablesOf(wv, a) == StampVariable(wv, a.filter, "r")

findRows(st, wv, a) == run(queryCypher(QueryOf(a), VariablesOf(wv, a)), st)

countValue(st, wv, a) == run(countCypher(QueryOf(a), VariablesOf(wv, a)), st)[1].count

existsValue(st, wv, a) == countValue(st, wv, a) > 0

\* the arguments of a reading verb: two node ids, a type, and the filter
\* omitted, null or given
QueryArgs ==
    {[NoArgs EXCEPT !.n1 = JInt(i), !.n2 = JInt(j), !.type = JStr(<<t>>), !.filter = f] :
       i \in NodeIds, j \in NodeIds, t \in {"relatedto", "other"},
       f \in {Undef, JRef(1)}}

\* relate(n1, n2, type, properties) with accepted arguments adds one relation
Relate ==
    /\ Len(store) < MaxRels
    /\ \E rel \in NewRelations :
         /\ rel.start # rel.end
         /\ "" \in relate([NoArgs EXCEPT !.n1 = JInt(rel.start), !.n2 = JInt(rel.end),
                                         !.type = JStr(<<rel.type>>)])
         /\ store' = Append(store, rel)
    /\ UNCHANGED out

\* updateMany(newProperties, n1, n2, type, filter).  An object of properties
\* is a function from its keys; {} has none.
EmptyObject == [field \in {} |-> NoValue]
NewProperties == {EmptyObject, [field \in {"p1"} |-> "'c'"]}

isEmptyObject(object) == DOMAIN object = {}

SetProperties(props, newProperties) ==
    [field \in DOMAIN props |->
       IF field \in DOMAIN newProperties THEN newProperties[field] ELSE props[field]]

\* the relations updateMany's statement matches
updateManyIds(st, wv, a) == MatchedIds(matchCypher(QueryOf(a), VariablesOf(wv, a)), st)

\* the store after the call: the matched relations take the new properties
updateManyStore(st, wv, newProperties, a) ==
    LET ids == updateManyIds(st, wv, a)
    IN [i \in 1..Len(st) |->
          IF \E k \in 1..Len(ids) : ids[k] = i
          THEN [st[i] EXCEPT !.props = SetProperties(@, newProperties)]
          ELSE st[i]]

\* an updateMany that answers the matched relations whatever it is given
updateManyRows_matched(st, wv, newProperties, a) ==
    LET ids == updateManyIds(st, wv, a)
        after == updateManyStore(st, wv, newProperties, a)
    IN [k \in 1..Len(ids) |->
          [id |-> ids[k], type |-> after[ids[k]].type, props |-> after[ids[k]].props]]

\* the rows the call resolves with: none when newProperties is empty (the
\* test 'Test empty newProperties UPDATE MANY' expects length 0 where two
\* relations match), else the updated relations
updateManyRows(st, wv, newProperties, a) ==
    IF isEmptyObject(newProperties) THEN <<>>
    ELSE LET ids == updateManyIds(st, wv, a)
             after == updateManyStore(st, wv, newProperties, a)
         IN [k \in 1..Len(ids) |->
               [id |-> ids[k], type |-> after[ids[k]].type, props |-> after[ids[k]].props]]

\* the arguments of an updateMany call: two distinct nodes, a type, and the
\* filter null or given
UpdateArgs ==
    {a \in {[NoArgs EXCEPT !.n1 = JInt(i), !.n2 = JInt(j), !.type = JStr(<<t>>),
                           !.filter = f] :
              i \in NodeIds, j \in NodeIds, t \in {"relatedto", "other"},
              f \in {Null, JRef(1)}} :
       a.n1 # a.n2}

\* An accepted updateMany call.  Attaching the filter to the query object
\* stamps it; whether a call with empty newProperties gets as far as building
\* the query is not known, so it may or may not stamp.
UpdateMany ==
    \E newProperties \in NewProperties, a \in UpdateArgs :
        /\ "" \in updateMany(a)
        /\ store' = updateManyStore(store, wvar, newProperties, a)
        /\ out' = [verb |-> "updateMany", empty |-> isEmptyObject(newProperties),
                   args |-> a, rows |-> updateManyRows(store, wvar, newProperties, a)]
        /\ \/ wvar' = VariablesOf(wvar, a)
           \/ isEmptyObject(newProperties) /\ wvar' = wvar

\* The store as relate calls build it.
NextStore ==
    /\ UNCHANGED <<qvars, ncalls, facvars, rout>>
    /\ Relate

SpecStore == Init /\ [][NextStore]_vars

\* The store under relate and updateMany calls.
NextUpdate ==
    /\ UNCHANGED <<q, hist, ncalls, facvars, rout>>
    /\ \/ Relate /\ UNCHANGED wvar
       \/ UpdateMany

SpecUpdate == Init /\ [][NextUpdate]_vars

EmptyUpdateStep == out'.verb = "updateMany" /\ out'.empty /\ <<out, wvar>>' # <<out, wvar>>

\* C12 as stated: an updateMany call with an empty new-properties object and
\* otherwise valid arguments changes no property value of any relation and
\* still resolves with the relations that (start id, end id, type, filter)
\* match.
C12_EmptyUpdate_AsStated ==
    [][EmptyUpdateStep =>
         /\ store' = store
         /\ out'.rows = findRows(store, wvar', out'.args)]_vars

\* C12: an updateMany call with an empty new-properties object and otherwise
\* valid arguments changes no property value of any relation, and resolves
\* with no rows, whatever relations its arguments match.
C12_EmptyUpdate ==
    [][EmptyUpdateStep =>
         /\ "" \in updateMany(out'.args)
         /\ Len(store') = Len(store)
         /\ \A i \in 1..Len(store) : store'[i].props = store[i].props
         /\ store' = store
         /\ out'.rows = <<>>]_vars

\* the test's case: the call answered no rows although two relations of the
\* type lie between the two nodes
C12_Witness_NoRowsThoughTwoMatch ==
    /\ out.verb = "updateMany" /\ out.empty
    /\ out.args.type = JStr(<<"relatedto">>) /\ out.args.filter = Null
    /\ out.rows = <<>>
    /\ Len(findRows(store, wvar, out.args)) = 2

\* ------------------------------------------------------------------ C13
\* the step of a render call on query object 1
RenderStep == rout'.tick # rout.tick

\* C13: rendering is pure and reflects the current state.  A call of a render
\* method (matchCypher, whereCypher, returnClause, nodesReturnClause,
\* orderByClause, limitClause, queryCypher, queryPopulatedCypher,
\* queryNodesCypher, countCypher) changes no field of any query object and no
\* filter; a call that repeats the previous one, with the same arguments and
\* no setter call between, returns the same string; and the string of a
\* render made after setter calls is the one the fields and the filters they
\* hold give at that moment, whatever was rendered before.
C13_RenderingIsPure ==
    [][RenderStep =>
         /\ q' = q
         /\ wvar' = wvar
         /\ rout'.again => rout'.text = rout.text
         /\ rout'.text = RenderOf(rout'.method, rout'.args, q'[1], wvar')]_vars

\* the full query rendered twice running on a query object whose limit and
\* relation filter are set
C13_Witness_SameQueryTwice ==
    /\ rout.method = "queryCypher" /\ rout.again
    /\ Truthy(q[1]._limit) /\ NotNull(q[1]._relationWhere)
    /\ HasToken(rout.text, "LIMIT") /\ HasToken(rout.text, "WHERE")

=============================================================================
